---- MODULE Spec2Model ----
(***************************************************************************)
(* State-machine model of the useWebworker hook (src/src/lib/              *)
(* useWebworker.ts): one mounted hook instance, the worker instances it    *)
(* spawned, and the host's timer queue.  Every action is one handler run   *)
(* to completion followed by React's commit of the queued state updates.   *)
(***************************************************************************)
EXTENDS Integers, Sequences, FiniteSets, TLC

\* ---------------------------------------------------------------- bounds
MaxHandles == 2          \* worker instances spawned in one behaviour
MaxTimeout == 1          \* largest timeout option, in ticks

\* ------------------------------------------------------------ value sets
NoHandle == 0            \* workerRef.current === null
NoTimer  == 0            \* timeoutRef.current === undefined

EmptySource == ""
UrlSources == {"/example.worker.js", "/new.worker.js"}
FnSources  == {"createMockWorker"}
Sources    == {EmptySource} \cup UrlSources \cup FnSources

Timeouts == 0..MaxTimeout

Null      == "null"
Payloads  == {"r84", "rDone"}            \* event.data of a worker message
Messages  == {"mTest"}                  \* cloneable payloads of postMessage
Uncloneable == {"mFunction"}             \* payloads the handle's send rejects

WorkerStatus == {"idle", "running", "success", "error", "terminated"}

NullError == [kind |-> "null", message |-> ""]
ErrorEvents == {[kind |-> "ErrorEvent", message |-> "Something went wrong"],
                [kind |-> "ErrorEvent", message |-> ""]}
TimeoutError == [kind |-> "Error", message |-> "Worker timed out"]
NotRunningMsg == "Worker is not running or has been terminated."
MisuseError == [kind |-> "Error", message |-> NotRunningMsg]
ConstructionError == [kind |-> "Error", message |-> "Failed to create worker"]

VARIABLES
  mounted,      \* "unmounted" | "mounted" | "disposed"
  workerSource, \* the workerSource argument of the last render (line 29)
  timeout,      \* options?.timeout of the last render, 0 = absent (line 30)
  data,         \* useState data (line 32)
  error,        \* useState error (line 33)
  status,       \* useState status (line 34)
  workerRef,    \* workerRef.current: handle id, NoHandle = null (line 35)
  timeoutRef,   \* timeoutRef.current: timer id, NoTimer = undefined (line 36)
  timers,       \* host timer queue: pending setTimeout callbacks (line 88)
  nextHandle,   \* id the next spawned worker instance gets
  nextTimer,    \* id the next window.setTimeout returns
  termCount,    \* how often terminate() was invoked on each instance
  calls,        \* host calls made by the last handler, in order
  thrown,       \* exception the last handler let escape to its caller
  lastOp,       \* the last handler that ran, with its inputs
  pre,          \* the state the last handler started from
  settled       \* cycles (by handle id) whose pending timeout saw a relay
                \* or a terminateWorker call

vars == <<mounted, workerSource, timeout, data, error, status, workerRef,
          timeoutRef, timers, nextHandle, nextTimer, termCount,
          calls, thrown, lastOp, pre, settled>>

Handles == 1..MaxHandles
Spawned == 1..(nextHandle - 1)

\* ------------------------------------------------- the hook's mutable store
\* The part of the state a handler reads and writes, as one record, so that
\* handlers compose sequentially the way the code calls them.
Store == [data |-> data, error |-> error, status |-> status,
          workerRef |-> workerRef, timeoutRef |-> timeoutRef,
          timers |-> timers, nextHandle |-> nextHandle,
          nextTimer |-> nextTimer,
          termCount |-> termCount, calls |-> <<>>, thrown |-> Null]

Call(fn, h, arg) == [fn |-> fn, h |-> h, arg |-> arg]

\* clearTimeout(id): the host drops the pending callback with that id
clearTimeout(q, id) == {t \in q : t.id # id}

\* if (timeoutRef.current) { clearTimeout(timeoutRef.current);
\*                           timeoutRef.current = undefined; }
ClearTimeoutRef(s) ==
  IF s.timeoutRef # NoTimer
  THEN [s EXCEPT !.timers = clearTimeout(@, s.timeoutRef),
                 !.timeoutRef = NoTimer]
  ELSE s

\* Variant: the status is reset even when there is no live handle.
terminateWorker_Unguarded(s) ==
  IF s.workerRef # NoHandle
  THEN ClearTimeoutRef(
         [s EXCEPT !.termCount[s.workerRef] = @ + 1,
                   !.calls = Append(@, Call("terminate", s.workerRef, "")),
                   !.workerRef = NoHandle,
                   !.status = "terminated",
                   !.data = Null,
                   !.error = NullError])
  ELSE [s EXCEPT !.status = "terminated", !.data = Null, !.error = NullError]

\* Variant: the pending timeout is left in the host queue.
terminateWorker_KeepsTimeout(s) ==
  IF s.workerRef # NoHandle
  THEN [s EXCEPT !.termCount[s.workerRef] = @ + 1,
                 !.calls = Append(@, Call("terminate", s.workerRef, "")),
                 !.workerRef = NoHandle,
                 !.status = "terminated",
                 !.data = Null,
                 !.error = NullError]
  ELSE s

\* Variant: the previous error is left in place.
terminateWorker_KeepsError(s) ==
  IF s.workerRef # NoHandle
  THEN ClearTimeoutRef(
         [s EXCEPT !.termCount[s.workerRef] = @ + 1,
                   !.calls = Append(@, Call("terminate", s.workerRef, "")),
                   !.workerRef = NoHandle,
                   !.status = "terminated",
                   !.data = Null])
  ELSE s

\* Variant: the ref keeps the terminated instance.
terminateWorker_KeepsRef(s) ==
  IF s.workerRef # NoHandle
  THEN ClearTimeoutRef(
         [s EXCEPT !.termCount[s.workerRef] = 1,
                   !.calls = Append(@, Call("terminate", s.workerRef, "")),
                   !.status = "terminated",
                   !.data = Null,
                   !.error = NullError])
  ELSE s

terminateWorker(s) ==
  IF s.workerRef # NoHandle
  THEN ClearTimeoutRef(
         [s EXCEPT !.termCount[s.workerRef] = @ + 1,
                   !.calls = Append(@, Call("terminate", s.workerRef, "")),
                   !.workerRef = NoHandle,
                   !.status = "terminated",
                   !.data = Null,
                   !.error = NullError])
  ELSE s

\* Variant: the relay does not cancel the pending timeout.
onmessage_KeepsTimeout(s, eventData) ==
  [s EXCEPT !.data = eventData, !.status = "success", !.error = NullError]

onmessage(s, eventData) ==
  ClearTimeoutRef([s EXCEPT !.data = eventData,
                            !.status = "success",
                            !.error = NullError])

\* Variant: the relay does not clear the previous result.
onerror_KeepsData(s, err) ==
  ClearTimeoutRef([s EXCEPT !.error = err, !.status = "error"])

\* Variant: a relayed error also terminates the handle.
onerror_Terminates(s, err) ==
  LET s1 == terminateWorker(s)
  IN ClearTimeoutRef([s1 EXCEPT !.error = err,
                                !.status = "error",
                                !.data = Null])

onerror(s, err) ==
  ClearTimeoutRef([s EXCEPT !.error = err,
                            !.status = "error",
                            !.data = Null])

\* Variant: the callback acts only for a closure status of "running".
timeoutCallback_OnlyWhenRunning(s, closureStatus) ==
  IF closureStatus = "running"
  THEN LET s1 == terminateWorker(s)
       IN [s1 EXCEPT !.error = TimeoutError, !.status = "error"]
  ELSE s

\* The callback given to window.setTimeout; closureStatus is the status of
\* the render whose effect scheduled it.
timeoutCallback(s, closureStatus) ==
  IF closureStatus # "success" /\ closureStatus # "error"
  THEN LET s1 == terminateWorker(s)
       IN [s1 EXCEPT !.error = TimeoutError, !.status = "error"]
  ELSE s

\* Variant: the empty-source guard is missing.
effect_NoEmptyGuard(s, src, to, renderStatus, spawnOk) ==
  IF ~spawnOk
  THEN [s EXCEPT !.error = ConstructionError, !.status = "error"]
  ELSE LET h  == s.nextHandle
       IN [s EXCEPT !.nextHandle = @ + 1,
                    !.calls = Append(@, Call("new Worker", h, src)),
                    !.workerRef = h,
                    !.status = "running"]

\* Variant: the timer is scheduled whether or not a timeout is configured.
effect_AlwaysSchedules(s, src, to, renderStatus, spawnOk) ==
  IF src = EmptySource THEN s
  ELSE IF ~spawnOk
  THEN [s EXCEPT !.error = ConstructionError, !.status = "error"]
  ELSE LET h == s.nextHandle
       IN [s EXCEPT !.nextHandle = @ + 1,
                    !.calls = Append(@, Call(IF src \in FnSources
                                             THEN "workerSource()"
                                             ELSE "new Worker",
                                             h, src)),
                    !.workerRef = h,
                    !.status = "running",
                    !.timeoutRef = s.nextTimer,
                    !.nextTimer = @ + 1,
                    !.timers = @ \cup {[id |-> s.nextTimer,
                                        remaining |-> to,
                                        status |-> renderStatus,
                                        h |-> h]}]

\* Variant: an empty source resets the status to idle.
effect_IdleOnEmpty(s, src, to, renderStatus, spawnOk) ==
  IF src = EmptySource THEN [s EXCEPT !.status = "idle"]
  ELSE IF ~spawnOk
  THEN [s EXCEPT !.error = ConstructionError, !.status = "error"]
  ELSE LET h == s.nextHandle
       IN [s EXCEPT !.nextHandle = @ + 1,
                    !.calls = Append(@, Call(IF src \in FnSources
                                             THEN "workerSource()"
                                             ELSE "new Worker",
                                             h, src)),
                    !.workerRef = h,
                    !.status = "running"]

\* Body of the effect.  renderStatus is the status of the render the effect
\* belongs to; spawnOk tells whether the factory / Worker constructor returns.
effect(s, src, to, renderStatus, spawnOk) ==
  IF src = EmptySource THEN s
  ELSE IF ~spawnOk
  THEN [s EXCEPT !.error = ConstructionError, !.status = "error"]
  ELSE LET h  == s.nextHandle
           s1 == [s EXCEPT !.nextHandle = @ + 1,
                           !.calls = Append(@, Call(IF src \in FnSources
                                                    THEN "workerSource()"
                                                    ELSE "new Worker",
                                                    h, src)),
                           !.workerRef = h,
                           !.status = "running"]
       IN IF to # 0
          THEN [s1 EXCEPT !.timeoutRef = s.nextTimer,
                          !.nextTimer = @ + 1,
                          !.timers = @ \cup {[id |-> s.nextTimer,
                                              remaining |-> to,
                                              status |-> renderStatus,
                                              h |-> h]}]
          ELSE s1

\* Variant: forwards only while the status is "running".
postMessage_OnlyWhenRunning(s, renderStatus, message) ==
  IF s.workerRef # NoHandle /\ renderStatus = "running"
  THEN [s EXCEPT !.calls = Append(@, Call("postMessage", s.workerRef, message)),
                 !.thrown = IF message \in Uncloneable
                            THEN "DataCloneError" ELSE Null]
  ELSE [s EXCEPT !.calls = Append(@, Call("console.warn", NoHandle, NotRunningMsg)),
                 !.error = MisuseError,
                 !.status = "error"]

\* Variant: a call without a live handle is dropped with a notice only.
postMessage_SilentDrop(s, renderStatus, message) ==
  IF s.workerRef # NoHandle /\ renderStatus # "terminated"
  THEN [s EXCEPT !.calls = Append(@, Call("postMessage", s.workerRef, message)),
                 !.thrown = IF message \in Uncloneable
                            THEN "DataCloneError" ELSE Null]
  ELSE [s EXCEPT !.calls = Append(@, Call("console.warn", NoHandle, NotRunningMsg))]

\* Variant: forwarding resets the status to running.
postMessage_ResetsRunning(s, renderStatus, message) ==
  IF s.workerRef # NoHandle /\ renderStatus # "terminated"
  THEN [s EXCEPT !.calls = Append(@, Call("postMessage", s.workerRef, message)),
                 !.thrown = IF message \in Uncloneable
                            THEN "DataCloneError" ELSE Null,
                 !.status = "running"]
  ELSE [s EXCEPT !.calls = Append(@, Call("console.warn", NoHandle, NotRunningMsg)),
                 !.error = MisuseError,
                 !.status = "error"]

postMessage(s, renderStatus, message) ==
  IF s.workerRef # NoHandle /\ renderStatus # "terminated"
  THEN [s EXCEPT !.calls = Append(@, Call("postMessage", s.workerRef, message)),
                 !.thrown = IF message \in Uncloneable
                            THEN "DataCloneError" ELSE Null]
  ELSE [s EXCEPT !.calls = Append(@, Call("console.warn", NoHandle, NotRunningMsg)),
                 !.error = MisuseError,
                 !.status = "error"]

\* ---------------------------------------------------------------- actions
Observable == [data |-> data, error |-> error, status |-> status,
               workerRef |-> workerRef, timeoutRef |-> timeoutRef,
               timers |-> timers, nextHandle |-> nextHandle,
               termCount |-> termCount, workerSource |-> workerSource]

\* op: the handler; arg: its input; h: the instance it concerns (the live
\* handle when it started, or the instance that delivered the event);
\* spawn: what the factory / Worker constructor did ("none" if not called).
Op(name, arg, h, spawn) == [op |-> name, arg |-> arg, h |-> h, spawn |-> spawn]

SpawnResult(src, spawnOk) ==
  IF src = EmptySource THEN "none" ELSE IF spawnOk THEN "ok" ELSE "throws"

SettlingOps == {"onmessage", "onerror", "terminateWorker"}

\* Commit the store a handler produced.
Commit(s, op) ==
  /\ data' = s.data
  /\ error' = s.error
  /\ status' = s.status
  /\ workerRef' = s.workerRef
  /\ timeoutRef' = s.timeoutRef
  /\ timers' = s.timers
  /\ nextHandle' = s.nextHandle
  /\ nextTimer' = s.nextTimer
  /\ termCount' = s.termCount
  /\ calls' = s.calls
  /\ thrown' = s.thrown
  /\ lastOp' = op
  /\ pre' = Observable
  /\ settled' = IF op.op \in SettlingOps
                THEN settled \cup {t.h : t \in timers}
                ELSE settled

Init ==
  /\ mounted = "unmounted"
  /\ workerSource = EmptySource
  /\ timeout = 0
  /\ data = Null
  /\ error = NullError
  /\ status = "idle"
  /\ workerRef = NoHandle
  /\ timeoutRef = NoTimer
  /\ timers = {}
  /\ nextHandle = 1
  /\ nextTimer = 1
  /\ termCount = [h \in Handles |-> 0]
  /\ calls = <<>>
  /\ thrown = Null
  /\ lastOp = Op("none", "", NoHandle, "none")
  /\ pre = [data |-> Null, error |-> NullError, status |-> "idle",
            workerRef |-> NoHandle, timeoutRef |-> NoTimer, timers |-> {},
            nextHandle |-> 1, termCount |-> [h \in Handles |-> 0],
            workerSource |-> EmptySource]
  /\ settled = {}

\* A spawn can be attempted only while instance ids remain.
CanSpawn(src, spawnOk) == src # EmptySource /\ spawnOk => nextHandle <= MaxHandles

\* First render and first run of the effect.
Mount(src, to, spawnOk) ==
  /\ mounted = "unmounted"
  /\ CanSpawn(src, spawnOk)
  /\ mounted' = "mounted"
  /\ workerSource' = src
  /\ timeout' = to
  /\ Commit(effect(Store, src, to, status, spawnOk),
            Op("initialize", src, NoHandle, SpawnResult(src, spawnOk)))

\* Variant: the new effect runs without the previous effect's cleanup.
Reinitialize_NoCleanup(src, to, spawnOk) ==
  /\ mounted = "mounted"
  /\ <<src, to>> # <<workerSource, timeout>>
  /\ CanSpawn(src, spawnOk)
  /\ workerSource' = src
  /\ timeout' = to
  /\ UNCHANGED mounted
  /\ Commit(effect(Store, src, to, status, spawnOk),
            Op(IF src # workerSource THEN "sourceChange" ELSE "timeoutChange",
               src, workerRef, SpawnResult(src, spawnOk)))

\* Re-render with a changed dependency: the previous effect's cleanup runs,
\* then the effect of the new render.
Reinitialize(src, to, spawnOk) ==
  /\ mounted = "mounted"
  /\ <<src, to>> # <<workerSource, timeout>>
  /\ CanSpawn(src, spawnOk)
  /\ workerSource' = src
  /\ timeout' = to
  /\ UNCHANGED mounted
  /\ Commit(effect(terminateWorker(Store), src, to, status, spawnOk),
            Op(IF src # workerSource THEN "sourceChange" ELSE "timeoutChange",
               src, workerRef, SpawnResult(src, spawnOk)))

\* Variant: the effect re-runs on every render (no dependency list).
Rerender_RunsEffect ==
  /\ mounted = "mounted"
  /\ CanSpawn(workerSource, TRUE)
  /\ UNCHANGED <<mounted, workerSource, timeout>>
  /\ Commit(effect(terminateWorker(Store), workerSource, timeout, status, TRUE),
            Op("rerender", "", NoHandle, "none"))

\* Re-render with unchanged dependencies: the effect is not re-run.
Rerender ==
  /\ mounted = "mounted"
  /\ UNCHANGED <<mounted, workerSource, timeout>>
  /\ Commit(Store, Op("rerender", "", NoHandle, "none"))

PostMessage(message) ==
  /\ mounted = "mounted"
  /\ UNCHANGED <<mounted, workerSource, timeout>>
  /\ Commit(postMessage(Store, status, message),
            Op("postMessage", message, workerRef, "none"))

TerminateWorker ==
  /\ mounted = "mounted"
  /\ UNCHANGED <<mounted, workerSource, timeout>>
  /\ Commit(terminateWorker(Store), Op("terminateWorker", "", workerRef, "none"))

\* Variant: the relay ignores an instance that is no longer workerRef's.
WorkerMessage_IgnoresStale(h, eventData) ==
  /\ mounted = "mounted"
  /\ h \in Spawned
  /\ UNCHANGED <<mounted, workerSource, timeout>>
  /\ Commit(IF h = workerRef THEN onmessage(Store, eventData) ELSE Store,
            Op("onmessage", eventData, h, "none"))

\* A spawned instance (live or not: its handlers stay installed) delivers a
\* message event.
WorkerMessage(h, eventData) ==
  /\ mounted = "mounted"
  /\ h \in Spawned
  /\ UNCHANGED <<mounted, workerSource, timeout>>
  /\ Commit(onmessage(Store, eventData), Op("onmessage", eventData, h, "none"))

WorkerError(h, err) ==
  /\ mounted = "mounted"
  /\ h \in Spawned
  /\ UNCHANGED <<mounted, workerSource, timeout>>
  /\ Commit(onerror(Store, err), Op("onerror", err.message, h, "none"))

\* One unit of time passes; a due callback runs before time moves on.
Tick ==
  /\ mounted = "mounted"
  /\ \A t \in timers : t.remaining > 0
  /\ UNCHANGED <<mounted, workerSource, timeout>>
  /\ Commit([Store EXCEPT !.timers = {[t EXCEPT !.remaining = @ - 1] : t \in timers}],
            Op("tick", "", NoHandle, "none"))

\* The host runs a due timer callback.
TimerFire(t) ==
  /\ mounted = "mounted"
  /\ t \in timers
  /\ t.remaining = 0
  /\ UNCHANGED <<mounted, workerSource, timeout>>
  /\ Commit(timeoutCallback([Store EXCEPT !.timers = @ \ {t}], t.status),
            Op("timeout", t.status, t.h, "none"))

\* Variant: unmounting runs no cleanup.
Unmount_NoCleanup ==
  /\ mounted = "mounted"
  /\ mounted' = "disposed"
  /\ UNCHANGED <<workerSource, timeout>>
  /\ Commit(Store, Op("unmount", "", workerRef, "none"))

\* Unmount: the effect's cleanup runs.
Unmount ==
  /\ mounted = "mounted"
  /\ mounted' = "disposed"
  /\ UNCHANGED <<workerSource, timeout>>
  /\ Commit(terminateWorker(Store), Op("unmount", "", workerRef, "none"))

Next ==
  \/ \E src \in Sources, to \in Timeouts, ok \in BOOLEAN : Mount(src, to, ok)
  \/ \E src \in Sources, to \in Timeouts, ok \in BOOLEAN : Reinitialize(src, to, ok)
  \/ Rerender
  \/ \E m \in Messages \cup Uncloneable : PostMessage(m)
  \/ TerminateWorker
  \/ \E h \in Handles, p \in Payloads : WorkerMessage(h, p)
  \/ \E h \in Handles, e \in ErrorEvents : WorkerError(h, e)
  \/ Tick
  \/ \E t \in timers : TimerFire(t)
  \/ Unmount

Spec == Init /\ [][Next]_vars

\* ------------------------------------------------------------------ claims
InitOps == {"initialize", "sourceChange", "timeoutChange"}
TokenGone(t) == \A u \in timers : u.id # t.id
SpawnCall(h, src) ==
  Call(IF src \in FnSources THEN "workerSource()" ELSE "new Worker", h, src)

\* C1: whenever a spawned instance delivers a message, in any status, the
\* state afterwards is data = the payload, status = success, error = null,
\* and the timeout token that was pending is cancelled.
C1_MessageRelay ==
  lastOp.op = "onmessage" =>
    /\ data = lastOp.arg
    /\ status = "success"
    /\ error = NullError
    /\ \A t \in pre.timers : TokenGone(t)
    /\ timeoutRef = NoTimer

C1_Witness ==
  /\ lastOp.op = "onmessage"
  /\ pre.status = "running"
  /\ pre.timers # {}
  /\ lastOp.h = pre.workerRef
  /\ data = "r84"

\* C2: whenever a spawned instance delivers an error event, in any status,
\* the state afterwards is error = that event unmodified, status = error,
\* data = null, and the timeout token that was pending is cancelled.
C2_ErrorRelay ==
  lastOp.op = "onerror" =>
    /\ error = [kind |-> "ErrorEvent", message |-> lastOp.arg]
    /\ status = "error"
    /\ data = Null
    /\ \A t \in pre.timers : TokenGone(t)
    /\ timeoutRef = NoTimer

C2_Witness ==
  /\ lastOp.op = "onerror"
  /\ pre.status = "success"
  /\ pre.data # Null
  /\ lastOp.h = pre.workerRef
  /\ error.message = "Something went wrong"

\* C3: terminateWorker with a live handle invokes its terminate once,
\* nulls the handle, cancels the pending timeout token and leaves
\* status = terminated, data = null, error = null; without a live handle it
\* changes nothing and calls nothing, so a second call in a row is a no-op.
C3_TerminateWorker ==
  lastOp.op = "terminateWorker" =>
    IF pre.workerRef # NoHandle
    THEN /\ calls = <<Call("terminate", pre.workerRef, "")>>
         /\ termCount = [pre.termCount EXCEPT ![pre.workerRef] = @ + 1]
         /\ workerRef = NoHandle
         /\ timers = {}
         /\ timeoutRef = NoTimer
         /\ status = "terminated"
         /\ data = Null
         /\ error = NullError
    ELSE /\ calls = <<>>
         /\ Observable = pre

\* the second of two terminateWorker calls in a row
C3_Witness ==
  /\ lastOp.op = "terminateWorker"
  /\ pre.workerRef = NoHandle
  /\ pre.status = "terminated"
  /\ \E h \in Handles : termCount[h] = 1
  /\ status = "terminated"

\* C4: postMessage with a live handle and status other than terminated
\* makes exactly one host call: the handle's postMessage with exactly that
\* payload, whatever the status (running, success, error).
C4_PostForwards ==
  (lastOp.op = "postMessage" /\ pre.workerRef # NoHandle
                             /\ pre.status # "terminated") =>
    calls = <<Call("postMessage", pre.workerRef, lastOp.arg)>>

C4_Witness ==
  /\ lastOp.op = "postMessage"
  /\ pre.workerRef # NoHandle
  /\ pre.status = "error"
  /\ calls = <<Call("postMessage", pre.workerRef, "mTest")>>

\* C5: postMessage without a live handle forwards nothing, emits the notice
\* "Worker is not running or has been terminated." and leaves
\* status = error with error = an Error carrying that message.
C5_PostMisuse ==
  (lastOp.op = "postMessage" /\ pre.workerRef = NoHandle) =>
    /\ calls = <<Call("console.warn", NoHandle, NotRunningMsg)>>
    /\ status = "error"
    /\ error = [kind |-> "Error", message |-> NotRunningMsg]
    /\ termCount = pre.termCount

C5_Witness ==
  /\ lastOp.op = "postMessage"
  /\ pre.workerRef = NoHandle
  /\ pre.status = "terminated"
  /\ status = "error"

\* C6: when the timer of the initialization made from status idle fires
\* (no message, error, terminateWorker or re-initialization came first),
\* the handle's terminate is invoked, the handle is released and the state
\* is status = error, error = Error("Worker timed out"), data = null.
C6_TimeoutFires ==
  (lastOp.op = "timeout" /\ lastOp.arg = "idle") =>
    /\ pre.workerRef = lastOp.h
    /\ pre.status = "running"
    /\ calls = <<Call("terminate", lastOp.h, "")>>
    /\ termCount[lastOp.h] = 1
    /\ workerRef = NoHandle
    /\ timers = {}
    /\ status = "error"
    /\ error = [kind |-> "Error", message |-> "Worker timed out"]
    /\ data = Null

C6_Witness ==
  /\ lastOp.op = "timeout"
  /\ lastOp.arg = "idle"
  /\ status = "error"
  /\ error = TimeoutError

\* C7: once a message relay, an error relay or terminateWorker has run in a
\* cycle with a pending timeout, that cycle's token is out of the host queue
\* and never fires: later time steps leave status, data and error as they
\* are and invoke no terminate.
C7_TimeoutCancelled ==
  /\ \A t \in timers : t.h \notin settled
  /\ lastOp.op = "timeout" => lastOp.h \notin settled
  /\ lastOp.op \in SettlingOps => \A t \in pre.timers : TokenGone(t)
  /\ lastOp.op = "tick" =>
       /\ status = pre.status /\ data = pre.data /\ error = pre.error
       /\ workerRef = pre.workerRef /\ calls = <<>>

\* time passes after a message cancelled the cycle's timeout
C7_Witness ==
  /\ lastOp.op = "tick"
  /\ workerRef \in settled
  /\ status = "success"
  /\ timers = {}

\* C8: a change of the source descriptor to another non-empty source while
\* a handle is live (the new spawn succeeding) terminates the prior handle
\* exactly once, spawns a new, distinct handle from the new source, and
\* leaves status = running, data = null, error = null; no instance ever has
\* terminate invoked twice.
C8_SourceChange ==
  /\ \A h \in Handles : termCount[h] <= 1
  /\ (lastOp.op = "sourceChange" /\ pre.workerRef # NoHandle
                                 /\ lastOp.spawn = "ok") =>
       /\ calls = <<Call("terminate", pre.workerRef, ""),
                    SpawnCall(pre.nextHandle, lastOp.arg)>>
       /\ termCount[pre.workerRef] = 1
       /\ workerRef = pre.nextHandle
       /\ workerRef # pre.workerRef
       /\ termCount[workerRef] = 0
       /\ status = "running"
       /\ data = Null
       /\ error = NullError

C8_Witness ==
  /\ lastOp.op = "sourceChange"
  /\ pre.workerRef # NoHandle
  /\ pre.status = "success"
  /\ pre.workerSource = "/example.worker.js"
  /\ workerSource = "/new.worker.js"
  /\ status = "running"

\* C9: when spawning the handle fails during an initialization, the state
\* afterwards is status = error, error = the construction failure,
\* data = null, no live handle and no scheduled timeout token.
C9_ConstructionFailure ==
  lastOp.spawn = "throws" =>
    /\ status = "error"
    /\ error = ConstructionError
    /\ data = Null
    /\ workerRef = NoHandle
    /\ timers = {}

\* C10 as stated: every initialization with an empty source, at first mount
\* or on a change from a non-empty source, creates no handle and leaves
\* status = idle.
C10_EmptySourceIdle ==
  (lastOp.op \in InitOps /\ lastOp.arg = EmptySource) =>
    /\ nextHandle = pre.nextHandle
    /\ workerRef = NoHandle
    /\ status = "idle"

\* C10 amended: an initialization with an empty source spawns nothing and
\* leaves no live handle and no timeout token; the status is idle only if it
\* was idle before, terminated if a live handle was torn down, and otherwise
\* unchanged.  A later change to a non-empty source whose spawn succeeds
\* creates a handle and sets status = running.
C10_EmptySource ==
  /\ (lastOp.op \in InitOps /\ lastOp.arg = EmptySource) =>
       /\ nextHandle = pre.nextHandle
       /\ lastOp.spawn = "none"
       /\ workerRef = NoHandle
       /\ timers = {}
       /\ status = IF pre.workerRef # NoHandle THEN "terminated"
                   ELSE pre.status
       /\ status = "idle" <=> pre.status = "idle"
  /\ (lastOp.op \in InitOps /\ pre.workerSource = EmptySource
                            /\ lastOp.spawn = "ok") =>
       /\ workerRef = pre.nextHandle
       /\ nextHandle = pre.nextHandle + 1
       /\ status = "running"

\* a handle spawned by the change that follows an empty-source mount
C10_Witness ==
  /\ lastOp.op = "sourceChange"
  /\ pre.workerSource = EmptySource
  /\ pre.status = "idle"
  /\ lastOp.spawn = "ok"
  /\ status = "running"

\* instances that were spawned and never had terminate invoked
LiveHandles == {h \in Spawned : termCount[h] = 0}

\* C11: at any time at most one spawned-and-not-terminated handle (the one
\* workerRef holds) and at most one pending timeout token exist; a
\* re-initialization invokes the prior handle's terminate before it spawns.
C11_SingleHandleAndToken ==
  /\ Cardinality(LiveHandles) <= 1
  /\ LiveHandles = IF workerRef = NoHandle THEN {} ELSE {workerRef}
  /\ Cardinality(timers) <= 1
  /\ (lastOp.op \in InitOps /\ pre.workerRef # NoHandle) =>
       /\ Len(calls) >= 1
       /\ Head(calls) = Call("terminate", pre.workerRef, "")
       /\ \A i \in 1..Len(calls) :
            calls[i].fn \in {"new Worker", "workerSource()"} => i = 2

\* a re-initialization with a timeout that replaced a live handle
C11_Witness ==
  /\ lastOp.op \in {"sourceChange", "timeoutChange"}
  /\ pre.workerRef # NoHandle
  /\ pre.timers # {}
  /\ lastOp.spawn = "ok"
  /\ timers # {}
  /\ Len(calls) = 2

\* C12: unmounting terminates the live handle if there is one and leaves no
\* live handle and no pending timeout token; once disposed, every spawned
\* instance has had terminate invoked exactly once.
C12_Teardown ==
  /\ lastOp.op = "unmount" =>
       /\ calls = IF pre.workerRef # NoHandle
                  THEN <<Call("terminate", pre.workerRef, "")>> ELSE <<>>
       /\ workerRef = NoHandle
       /\ timers = {}
  /\ mounted = "disposed" => \A h \in Spawned : termCount[h] = 1
  /\ \A h \in Handles : termCount[h] <= 1 /\ (h \notin Spawned => termCount[h] = 0)

\* unmount after terminateWorker and after a second, still live, cycle
C12_Witness ==
  /\ mounted = "disposed"
  /\ nextHandle = 3
  /\ pre.workerRef = 2
  /\ termCount[1] = 1
  /\ termCount[2] = 1

\* C13: whenever status = running, data = null, error = null and a live
\* handle exists; in particular every successful initialization, from any
\* prior state, leaves data and error null.
C13_RunningImpliesClean ==
  status = "running" =>
    /\ data = Null
    /\ error = NullError
    /\ workerRef # NoHandle

\* C14: in every state, status = success if and only if data is non-null
\* and error is null.
C14_SuccessIff ==
  status = "success" <=> (data # Null /\ error = NullError)

\* C15: in every state, status = error if and only if error is non-null and
\* data is null.
C15_ErrorIff ==
  status = "error" <=> (error # NullError /\ data = Null)

\* C16: whenever status is idle or terminated, data and error are both null.
C16_IdleTerminatedClean ==
  status \in {"idle", "terminated"} => (data = Null /\ error = NullError)

\* terminateWorker wiped the error of a previous error state
C16_Witness ==
  /\ status = "terminated"
  /\ lastOp.op = "terminateWorker"
  /\ pre.status = "error"
  /\ pre.error # NullError
  /\ error = NullError

\* C17 as stated: once status = terminated, only a re-initialization
\* triggered by a change of the source descriptor changes the status, and
\* that re-initialization leaves status = running.
C17_TerminatedAbsorbing ==
  pre.status = "terminated" =>
    IF lastOp.op = "sourceChange"
    THEN lastOp.spawn = "ok" => status = "running"
    ELSE status = "terminated"

\* C17 amended: from status = terminated, terminateWorker, a re-render with
\* unchanged dependencies, time passing, unmount and a re-initialization
\* with an empty source leave the status terminated; a postMessage makes it
\* error (misuse), a message or error relayed by a spawned instance makes it
\* success or error, and a re-initialization with a non-empty source (by a
\* source or timeout change) makes it running, or error if the spawn fails.
C17_TerminatedExits ==
  pre.status = "terminated" =>
    /\ pre.workerRef = NoHandle
    /\ status =
         CASE lastOp.op = "postMessage" -> "error"
           [] lastOp.op = "onmessage"   -> "success"
           [] lastOp.op = "onerror"     -> "error"
           [] lastOp.op \in InitOps /\ lastOp.spawn = "ok"     -> "running"
           [] lastOp.op \in InitOps /\ lastOp.spawn = "throws" -> "error"
           [] OTHER -> "terminated"
    /\ lastOp.op = "postMessage" => error = MisuseError

\* postMessage after terminateWorker
C17_Witness ==
  /\ pre.status = "terminated"
  /\ lastOp.op = "postMessage"
  /\ status = "error"

\* C18: whenever a timeout token that is still pending fires, whatever the
\* status was when its cycle was initialized, the cycle's handle is
\* terminated and status becomes error with the timeout error.
C18_TimeoutAnySchedule ==
  lastOp.op = "timeout" =>
    /\ termCount[lastOp.h] = 1
    /\ workerRef = NoHandle
    /\ status = "error"
    /\ error = TimeoutError

\* C19: a pending timeout token always belongs to the cycle of the live
\* handle (and is the one timeoutRef names); a token never fires once its
\* cycle's handle was destroyed, so it never acts on a later cycle's handle.
C19_NoDanglingToken ==
  /\ \A t \in timers : /\ workerRef = t.h
                       /\ t.h \in LiveHandles
                       /\ timeoutRef = t.id
  /\ lastOp.op = "timeout" =>
       /\ pre.workerRef = lastOp.h
       /\ pre.termCount[lastOp.h] = 0
       /\ \A h \in Handles \ {lastOp.h} : termCount[h] = pre.termCount[h]

\* a second cycle's token is pending after the first cycle, which had a
\* pending token of its own, was torn down
C19_Witness ==
  /\ lastOp.op \in {"sourceChange", "timeoutChange"}
  /\ pre.workerRef = 1
  /\ pre.timers # {}
  /\ termCount[1] = 1
  /\ workerRef = 2
  /\ timers # {}

\* C20: an error relayed by the live handle does not terminate it: the
\* handle stays live and no terminate is invoked; a postMessage that follows
\* is forwarded to it, and a message that follows sets status = success with
\* the payload and error = null.
C20_ErrorKeepsHandle ==
  /\ lastOp.op = "onerror" =>
       /\ workerRef = pre.workerRef
       /\ termCount = pre.termCount
       /\ calls = <<>>
  /\ (pre.status = "error" /\ pre.error.kind = "ErrorEvent"
        /\ pre.workerRef # NoHandle) =>
       /\ lastOp.op = "postMessage" =>
            /\ calls = <<Call("postMessage", pre.workerRef, lastOp.arg)>>
            /\ status = "error" /\ error = pre.error
       /\ lastOp.op = "onmessage" =>
            /\ status = "success" /\ data = lastOp.arg /\ error = NullError
            /\ workerRef = pre.workerRef

\* the live handle delivers a message after it relayed an error
C20_Witness ==
  /\ lastOp.op = "onmessage"
  /\ pre.status = "error"
  /\ pre.error.kind = "ErrorEvent"
  /\ pre.workerRef # NoHandle
  /\ lastOp.h = pre.workerRef
  /\ status = "success"

\* C21: a message or error delivered by an instance that is no longer the
\* live handle (after its timeout fired, after terminateWorker, or after it
\* was superseded) still runs the relay: the state becomes success with the
\* payload, or error with that event.
C21_StaleRelayNotSuppressed ==
  /\ (lastOp.op = "onmessage" /\ lastOp.h # pre.workerRef) =>
       /\ status = "success" /\ data = lastOp.arg /\ error = NullError
       /\ workerRef = pre.workerRef
  /\ (lastOp.op = "onerror" /\ lastOp.h # pre.workerRef) =>
       /\ status = "error" /\ data = Null
       /\ error = [kind |-> "ErrorEvent", message |-> lastOp.arg]
       /\ workerRef = pre.workerRef

\* a message from the instance whose timeout has fired
C21_Witness ==
  /\ lastOp.op = "onmessage"
  /\ pre.workerRef = NoHandle
  /\ pre.status = "error"
  /\ pre.error = TimeoutError
  /\ termCount[lastOp.h] = 1
  /\ status = "success"

C23_DataErrorExclusive ==
  ~(data # Null /\ error # NullError)

\* C24: every transition that leaves status success for a different status
\* leaves data = null.
C24_LeavingSuccessClearsData ==
  (pre.status = "success" /\ status # "success") => data = Null

\* C25: with timeout absent or 0 an initialization schedules no timeout
\* token, no token is pending and none fires; time passing leaves the
\* status (running, if nothing else happened) and the handle as they are.
C25_NoTimeoutConfigured ==
  /\ timeout = 0 => timers = {}
  /\ (lastOp.op \in InitOps /\ timeout = 0) =>
       timeoutRef \in {NoTimer, pre.timeoutRef}
  /\ lastOp.op = "timeout" => timeout > 0
  /\ (lastOp.op = "tick" /\ timeout = 0) =>
       /\ status = pre.status
       /\ workerRef = pre.workerRef
       /\ termCount = pre.termCount
       /\ calls = <<>>

\* time passes in a running cycle without a timeout
C25_Witness ==
  /\ lastOp.op = "tick"
  /\ timeout = 0
  /\ pre.status = "running"
  /\ status = "running"
  /\ workerRef # NoHandle
  /\ termCount[workerRef] = 0

\* C26: no handler lets an exception escape to its caller.
C26_NothingThrown ==
  thrown = Null

\* C27: a postMessage that is forwarded to a live handle leaves status,
\* data, error, the handle and the pending timeout token unchanged.
C27_PostMessageFrame ==
  (lastOp.op = "postMessage" /\ pre.workerRef # NoHandle) =>
    /\ calls = <<Call("postMessage", pre.workerRef, lastOp.arg)>>
    /\ Observable = pre

\* a forwarded postMessage while a previous result is shown
C27_Witness ==
  /\ lastOp.op = "postMessage"
  /\ pre.workerRef # NoHandle
  /\ pre.status = "success"
  /\ status = "success"
  /\ data # Null

\* C28: once the status has left idle, no operation brings it back to idle.
C28_IdleNeverReentered ==
  pre.status # "idle" => status # "idle"

\* a change to an empty source after the status left idle
C28_Witness ==
  /\ lastOp.op = "sourceChange"
  /\ lastOp.arg = EmptySource
  /\ pre.status \in {"running", "success", "error", "terminated"}
  /\ status # "idle"

\* C29: a live handle implies status is running, success or error, so
\* postMessage forwards exactly when a handle is live: the status test of
\* its precondition never decides the outcome.
C29_LiveHandleStatus ==
  /\ workerRef # NoHandle => status \in {"running", "success", "error"}
  /\ lastOp.op = "postMessage" =>
       IF pre.workerRef # NoHandle
       THEN calls = <<Call("postMessage", pre.workerRef, lastOp.arg)>>
       ELSE calls = <<Call("console.warn", NoHandle, NotRunningMsg)>>

\* a postMessage refused although the status is not terminated: no handle
\* is live (a late message set success)
C29_Witness ==
  /\ lastOp.op = "postMessage"
  /\ pre.workerRef = NoHandle
  /\ pre.status = "success"
  /\ calls = <<Call("console.warn", NoHandle, NotRunningMsg)>>
====
